---- MODULE Spec2Model ----
(***************************************************************************)
(* Model of the Medium article collector: the infinite-scroll link         *)
(* collector (collector.py) and the metadata extractor with its batch      *)
(* orchestrator (parser.py).  Strings that the code inspects character by  *)
(* character (URLs) are sequences of one-character strings.                *)
(***************************************************************************)
EXTENDS Integers, Sequences, FiniteSets, TLC

VARIABLES
    pc,                     \* position of the running call
    playwright,             \* "stopped" | "running": the async_playwright() scope
    browser,                \* "none" | "open" | "closed"
    raised,                 \* TRUE when the running call ended by propagating a fault
    ret,                    \* return value of the finished call
    \* ---- collect_links_from_tag ----
    feed,                   \* how the endpoint's page renders: "mixed" | "scroll"
    page_url,               \* page.url after navigation
    doc,                    \* the currently rendered document
    collected_urls,
    scroll_count,
    no_new_content_count,
    old_content_found,
    \* ---- observations of the run (history) ----
    harvested,              \* the last iteration completed its harvest pass on doc
    last_add,               \* iteration that last added a reference to the accumulator
    stop_reason,            \* why the scroll loop ended
    fault_at,               \* step at which a renderer fault was raised, or "none"
    at_fault,               \* the accumulator at the moment of the fault
    \* ---- process_articles_batch / extract_article_metadata ----
    urls,                   \* the input list
    idx,                    \* i of enumerate(urls, 1); 0 outside a batch
    results,
    sleeps,                 \* pacing delays taken so far
    page,                   \* the rendered article page the tiers read
    metadata,               \* what extract_article_metadata returns
    \* ---- observations of the extraction (history) ----
    jsonld_result,          \* what the structured-data tier returned
    html_called,            \* the markup tier was evaluated
    tier_fault,             \* the renderer faults injected while the tiers ran
    tiers_ran,              \* the extraction reached line 74 with a rendered page
    outcomes,               \* what each extraction so far returned
    \* ---- the helper functions called on their own ----
    call                    \* the function applied, its arguments and what it returned

collectorVars == <<feed, page_url, doc, collected_urls, scroll_count,
                   no_new_content_count, old_content_found,
                   harvested, last_add, stop_reason, fault_at, at_fault>>

sessionVars == <<pc, playwright, browser, raised, ret>>

batchVars == <<urls, idx, results, sleeps, page, metadata,
               jsonld_result, html_called, tier_fault, tiers_ran, outcomes>>

vars == <<sessionVars, collectorVars, batchVars, call>>

-----------------------------------------------------------------------------
(* Character-level string helpers *)

RECURSIVE Rep(_, _)
Rep(c, n) == IF n = 0 THEN <<>> ELSE <<c>> \o Rep(c, n - 1)

\* Python: needle in hay
Contains(hay, needle) ==
    \E i \in 1..(Len(hay) - Len(needle) + 1) :
        SubSeq(hay, i, i + Len(needle) - 1) = needle

UpperChars == <<"A","B","C","D","E","F","G","H","I","J","K","L","M",
                "N","O","P","Q","R","S","T","U","V","W","X","Y","Z">>
LowerChars == <<"a","b","c","d","e","f","g","h","i","j","k","l","m",
                "n","o","p","q","r","s","t","u","v","w","x","y","z">>

LowerChar(c) ==
    IF \E k \in 1..26 : UpperChars[k] = c
    THEN LowerChars[CHOOSE k \in 1..26 : UpperChars[k] = c]
    ELSE c

\* Python: s.lower()
Lower(s) == [k \in 1..Len(s) |-> LowerChar(s[k])]

\* Python: s.split(sep)[0] for a one-character sep
BeforeFirst(s, sep) ==
    IF \E k \in 1..Len(s) : s[k] = sep
    THEN SubSeq(s, 1, (CHOOSE k \in 1..Len(s) :
                          s[k] = sep /\ \A j \in 1..(k - 1) : s[j] # sep) - 1)
    ELSE s

HexChars == {"0","1","2","3","4","5","6","7","8","9","a","b","c","d","e","f"}

\* the regex -[a-f0-9]{8,12} matched so that it ends at position e of s
HexSuffixEndingAt(s, e) ==
    \E k \in 8..12 :
        /\ e - k >= 1
        /\ s[e - k] = "-"
        /\ \A j \in (e - k + 1)..e : s[j] \in HexChars

\* re.search(r"-[a-f0-9]{8,12}$", s): $ matches at the end of the string and
\* also just before a newline that ends the string
HexSuffixSearch(s) ==
    \/ HexSuffixEndingAt(s, Len(s))
    \/ Len(s) > 0 /\ s[Len(s)] = "\n" /\ HexSuffixEndingAt(s, Len(s) - 1)

-----------------------------------------------------------------------------
(* collector.py: configuration *)

MAX_SCROLLS == 150
YEAR_CUTOFF == 2025
NO_NEW_LIMIT == 6
MIN_PROFILE_URL_LEN == 40

BadMarkers == {
    <<"/","t","a","g","/">>,
    <<"/","s","e","a","r","c","h">>,
    <<"/","m","e","/">>,
    <<"/","a","b","o","u","t">>,
    <<"/","f","o","l","l","o","w","e","r","s">>,
    <<"/","l","i","s","t","s">>,
    <<"/","t","o","p","i","c","s">>,
    <<"?","s","o","u","r","c","e","=">>,
    <<"/","a","r","c","h","i","v","e">>,
    <<"s","i","g","n","i","n">>,
    <<"s","i","g","n","u","p">> }

_is_article_url_AcceptFirst(url) ==
    IF url = <<>> THEN FALSE
    ELSE IF Contains(url, <<"/","@">>) /\ Len(url) > MIN_PROFILE_URL_LEN THEN TRUE
    ELSE IF HexSuffixSearch(url) THEN TRUE
    ELSE FALSE

\* lines 165-175
_is_article_url(url) ==
    IF url = <<>> THEN FALSE
    ELSE IF \E b \in BadMarkers : Contains(Lower(url), b) THEN FALSE
    ELSE IF Contains(url, <<"/","@">>) /\ Len(url) > MIN_PROFILE_URL_LEN THEN TRUE
    ELSE IF HexSuffixSearch(url) THEN TRUE
    ELSE FALSE

_normalize_url_QueryOnly(url) == BeforeFirst(url, "?")

_normalize_url_Raw(url) == url

\* lines 178-179: url.split("?")[0].split("#")[0]
_normalize_url(url) == BeforeFirst(BeforeFirst(url, "?"), "#")

\* lines 153-156: what one href contributes to valid_urls
HarvestHref(href) ==
    IF href # <<>> /\ _is_article_url(href) THEN {_normalize_url(href)} ELSE {}

\* line 106: is_chronological = "/latest" in page.url
IsChronological(url) == Contains(url, <<"/","l","a","t","e","s","t">>)

\* lines 96-101: the accumulator after a harvest pass
MergeLinks(collected, new_urls) ==
    IF Cardinality(new_urls) > Cardinality(collected)
    THEN collected \cup new_urls
    ELSE collected

\* lines 96-101: the stale-iteration counter after a harvest pass
NextNoNewCount(collected, new_urls, n) ==
    IF Cardinality(new_urls) > Cardinality(collected) THEN 0 ELSE n + 1

ExhaustionStop_Off(n) == n > NO_NEW_LIMIT

\* line 114: if no_new_content_count >= 6: break
ExhaustionStop(n) == n >= NO_NEW_LIMIT

LoopGuard_Off(sc, old) == sc <= MAX_SCROLLS /\ ~old

\* line 86: while scroll_count < MAX_SCROLLS and not old_content_found
LoopGuard(sc, old) == sc < MAX_SCROLLS /\ ~old

InTryBlock_Narrow(step) == step \in {"c_goto", "c_title"}

\* lines 63-123: the steps of collect_links_from_tag that run inside try/except
InTryBlock(step) == step \in {"c_goto", "c_title", "c_loop"}

PlaywrightStop_Leak(b) == b

\* lines 36, 44: leaving the async_playwright() scope stops the Playwright
\* driver, which closes every browser it launched that is still running
PlaywrightStop(b) == IF b = "open" THEN "closed" ELSE b

-----------------------------------------------------------------------------
(* The pages the renderer can show *)

FeedLen == 25

HexDigit(n) == <<"0","1","2","3","4","5","6","7","8","9","a","b","c","d","e","f">>[n + 1]

\* the i-th item of an infinite-scroll feed: a path ending in the content-id suffix
FeedHref(i) == <<"/","f","-">> \o Rep("0", 6) \o <<HexDigit(i \div 16), HexDigit(i % 16)>>

HrefEmpty   == <<>>
HrefPost    == <<"/","p","-","a","b","c","d","e","f","1","2">>
HrefProfile == <<"/","@","u","/">> \o Rep("x", 37) \o <<"?","s","=","1">>
HrefTag     == <<"/","t","a","g","/","p","-","a","b","c","d","e","f","1","2">>

MixedHrefs == {HrefEmpty, HrefPost, HrefProfile, HrefTag}

\* every href the modelled pages can contain
KnownHrefs == MixedHrefs \cup { FeedHref(i) : i \in 1..(FeedLen + 1) }

\* lines 153-156: what one href contributes to valid_urls, tabulated once
\* per href (the loop body is a pure function of the href)
HarvestOfHref == [h \in KnownHrefs |-> HarvestHref(h)]

\* lines 144-162: the harvest pass over the hrefs of the rendered document.
\* found_old_content is initialised to False and never assigned again.
_extract_article_links(d) ==
    [valid_urls |-> UNION { HarvestOfHref[h] : h \in d.hrefs },
     found_old_content |-> FALSE]

LatestUrl      == <<"/","t","a","g","/","u","x","/","l","a","t","e","s","t">>
RecommendedUrl == <<"/","t","a","g","/","u","x","/","r","e","c","o","m","m","e","n","d","e","d">>

EmptyDoc == [hrefs |-> {}, old |-> FALSE]

\* what a scroll can make the page render next
NextDocs(f, d) ==
    IF f = "mixed"
    THEN [hrefs : SUBSET MixedHrefs, old : BOOLEAN]
    ELSE [hrefs : {d.hrefs} \cup
                  (IF Cardinality(d.hrefs) < FeedLen
                   THEN {d.hrefs \cup {FeedHref(Cardinality(d.hrefs) + 1)}}
                   ELSE {}),
          old : {FALSE}]

-----------------------------------------------------------------------------
(* parser.py: Python and JSON values.  A value is [t, v]: t is its Python   *)
(* type, v its content; a str is a sequence of characters, a dict is a     *)
(* function from keys to values, a list is a sequence of values.           *)

PyStr(s)   == [t |-> "str", v |-> s]
PyDict(d)  == [t |-> "dict", v |-> d]
PyList(l)  == [t |-> "list", v |-> l]
PyNum(n)   == [t |-> "num", v |-> n]
PyNone     == [t |-> "none", v |-> <<>>]
\* the outcome of an evaluation that raised
Raised     == [t |-> "raised", v |-> <<>>]
\* json.loads raised JSONDecodeError
NotJson    == [t |-> "notjson", v |-> <<>>]

EmptyStr == PyStr(<<>>)

\* Python truth value: bool(x)
Truthy(x) ==
    CASE x.t = "str"  -> x.v # <<>>
      [] x.t = "list" -> x.v # <<>>
      [] x.t = "dict" -> DOMAIN x.v # {}
      [] x.t = "num"  -> x.v # 0
      [] x.t = "none" -> FALSE
      [] OTHER -> FALSE

\* dict.get(key, default) on the content of a dict
Get(d, key, default) == IF key \in DOMAIN d THEN d[key] ELSE default

Whitespace == {" ", "\t", "\n", "\r"}

RECURSIVE LStrip(_)
LStrip(s) == IF s # <<>> /\ Head(s) \in Whitespace THEN LStrip(Tail(s)) ELSE s

RECURSIVE RStrip(_)
RStrip(s) ==
    IF s # <<>> /\ s[Len(s)] \in Whitespace THEN RStrip(SubSeq(s, 1, Len(s) - 1)) ELSE s

\* Python: s.strip()
Strip(s) == RStrip(LStrip(s))

\* Python: s.split(sep) for a one-character sep
RECURSIVE Split(_, _)
Split(s, sep) ==
    IF \E k \in 1..Len(s) : s[k] = sep
    THEN <<BeforeFirst(s, sep)>> \o Split(SubSeq(s, Len(BeforeFirst(s, sep)) + 2, Len(s)), sep)
    ELSE <<s>>

\* Python: s.replace(c, "") for a one-character c
RemoveChar(s, c) == SelectSeq(s, LAMBDA x : x # c)

\* Python: str(x) of a JSON value; only a str is reproduced exactly, any other
\* value gives its repr, which is some non-empty text
ToStr(x) == IF x.t = "str" THEN x ELSE PyStr(<<"r","e","p","r">>)

-----------------------------------------------------------------------------
(* parser.py: _normalize_date.  A parsed date is [ok, y, m, d].             *)

DigitChars == <<"0","1","2","3","4","5","6","7","8","9">>

IsDigit(c) == \E k \in 1..10 : DigitChars[k] = c

DigitVal(c) == (CHOOSE k \in 1..10 : DigitChars[k] = c) - 1

RECURSIVE NumVal(_)
NumVal(s) == IF s = <<>> THEN 0 ELSE 10 * NumVal(SubSeq(s, 1, Len(s) - 1)) + DigitVal(s[Len(s)])

NoDate == [ok |-> FALSE, y |-> 0, m |-> 0, d |-> 0]

IsLeap(y) == (y % 4 = 0 /\ y % 100 # 0) \/ y % 400 = 0

DaysInMonth(y, m) ==
    IF m = 2 THEN (IF IsLeap(y) THEN 29 ELSE 28)
    ELSE IF m \in {4, 6, 9, 11} THEN 30 ELSE 31

\* datetime(y, m, d): ValueError unless it is a date of the calendar
MkDate(y, m, d) ==
    IF y >= 1 /\ m \in 1..12 /\ d >= 1 /\ d <= DaysInMonth(y, m)
    THEN [ok |-> TRUE, y |-> y, m |-> m, d |-> d]
    ELSE NoDate

\* strptime %Y: \d\d\d\d
YearField(p) == Len(p) = 4 /\ \A k \in 1..4 : IsDigit(p[k])

\* strptime %m: 1[0-2]|0[1-9]|[1-9]
MonthField(p) ==
    \/ Len(p) = 2 /\ p[1] = "1" /\ p[2] \in {"0", "1", "2"}
    \/ Len(p) = 2 /\ p[1] = "0" /\ IsDigit(p[2]) /\ p[2] # "0"
    \/ Len(p) = 1 /\ IsDigit(p[1]) /\ p[1] # "0"

\* strptime %d: 3[0-1]|[1-2]\d|0[1-9]|[1-9]| [1-9]
DayField(p) ==
    \/ Len(p) = 2 /\ p[1] = "3" /\ p[2] \in {"0", "1"}
    \/ Len(p) = 2 /\ p[1] \in {"1", "2"} /\ IsDigit(p[2])
    \/ Len(p) = 2 /\ p[1] \in {"0", " "} /\ IsDigit(p[2]) /\ p[2] # "0"
    \/ Len(p) = 1 /\ IsDigit(p[1]) /\ p[1] # "0"

DayVal(p) == NumVal(SelectSeq(p, IsDigit))

\* datetime.fromisoformat on a date-only string: YYYY-MM-DD.  (Other ISO 8601
\* spellings, which newer interpreters also accept, are not among the
\* modelled inputs.)
FromIsoFormat(s) ==
    IF /\ Len(s) = 10
       /\ s[5] = "-" /\ s[8] = "-"
       /\ \A k \in {1, 2, 3, 4, 6, 7, 9, 10} : IsDigit(s[k])
    THEN MkDate(NumVal(SubSeq(s, 1, 4)), NumVal(SubSeq(s, 6, 7)), NumVal(SubSeq(s, 9, 10)))
    ELSE NoDate

\* the three fields of a numeric layout, converted
YmdOfParts(p, iy, im, id) ==
    IF Len(p) = 3 /\ YearField(p[iy]) /\ MonthField(p[im]) /\ DayField(p[id])
    THEN MkDate(NumVal(p[iy]), NumVal(p[im]), DayVal(p[id]))
    ELSE NoDate

\* strptime(s, "%Y-%m-%d")
StrptimeYmd(s) == YmdOfParts(Split(s, "-"), 1, 2, 3)

\* strptime(s, "%d/%m/%Y")
StrptimeDmy(s) == YmdOfParts(Split(s, "/"), 3, 2, 1)

\* strptime(s, "%m/%d/%Y")
StrptimeMdy(s) == YmdOfParts(Split(s, "/"), 3, 1, 2)

MonthNames == <<
    <<"j","a","n","u","a","r","y">>, <<"f","e","b","r","u","a","r","y">>,
    <<"m","a","r","c","h">>, <<"a","p","r","i","l">>, <<"m","a","y">>,
    <<"j","u","n","e">>, <<"j","u","l","y">>, <<"a","u","g","u","s","t">>,
    <<"s","e","p","t","e","m","b","e","r">>, <<"o","c","t","o","b","e","r">>,
    <<"n","o","v","e","m","b","e","r">>, <<"d","e","c","e","m","b","e","r">> >>

MonthAbbrs == [k \in 1..12 |-> SubSeq(MonthNames[k], 1, 3)]

StartsWith(s, prefix) == Len(s) >= Len(prefix) /\ SubSeq(s, 1, Len(prefix)) = prefix

\* the year of a named layout: whitespace, then \d\d\d\d
NamedYear(after, m, dayp) ==
    IF Len(LStrip(after)) < Len(after) /\ YearField(LStrip(after))
    THEN MkDate(NumVal(LStrip(after)), m, DayVal(dayp))
    ELSE NoDate

\* the day of a named layout: the text up to the comma
NamedDay(ws, m, dayp) ==
    IF Len(dayp) < Len(ws) /\ DayField(dayp)
    THEN NamedYear(SubSeq(ws, Len(dayp) + 2, Len(ws)), m, dayp)
    ELSE NoDate

\* what follows the month name: whitespace, the day, a comma, the year
NamedRest(rest, ws, m) ==
    IF Len(ws) < Len(rest) THEN NamedDay(ws, m, BeforeFirst(ws, ",")) ELSE NoDate

NamedFrom(s, name, m) ==
    NamedRest(SubSeq(s, Len(name) + 1, Len(s)),
              LStrip(SubSeq(s, Len(name) + 1, Len(s))), m)

\* strptime(s, "%B %d, %Y") and strptime(s, "%b %d, %Y"): a month name
\* (any case), whitespace, the day, a comma, whitespace, the year
StrptimeNamed(s, names) ==
    IF \E k \in 1..12 : StartsWith(Lower(s), names[k])
    THEN NamedFrom(s, names[CHOOSE k \in 1..12 : StartsWith(Lower(s), names[k])],
                   CHOOSE k \in 1..12 : StartsWith(Lower(s), names[k]))
    ELSE NoDate

Pad2(n) == <<DigitChars[(n \div 10) + 1], DigitChars[(n % 10) + 1]>>

\* dt.strftime("%Y-%m-%d")
FormatDate(dt) ==
    Pad2(dt.y \div 100) \o Pad2(dt.y % 100) \o <<"-">> \o Pad2(dt.m) \o <<"-">> \o Pad2(dt.d)

\* the first of two parses that succeeded
FirstOk(a, b) == IF a.ok THEN a ELSE b

FirstLayout_MonthFirst(s) ==
    FirstOk(StrptimeYmd(s),
    FirstOk(StrptimeMdy(s),
    FirstOk(StrptimeDmy(s),
    FirstOk(StrptimeNamed(s, MonthNames),
            StrptimeNamed(s, MonthAbbrs)))))

\* lines 273-286: the first layout of the list that parses
FirstLayout(s) ==
    FirstOk(StrptimeYmd(s),
    FirstOk(StrptimeDmy(s),
    FirstOk(StrptimeMdy(s),
    FirstOk(StrptimeNamed(s, MonthNames),
            StrptimeNamed(s, MonthAbbrs)))))

\* lines 268, 284, 289: the canonical form of a parsed date, else the text
FormatOr(dt, text) == IF dt.ok THEN FormatDate(dt) ELSE text

\* lines 263-264: the text before "T" (when there is one), then before "+"
StripTime(s) ==
    BeforeFirst(IF \E k \in 1..Len(s) : s[k] = "T" THEN BeforeFirst(s, "T") ELSE s, "+")

\* lines 267-289 on the stripped text: ISO first, then the layouts on the
\* text without surrounding whitespace, else the stripped text itself
NormalizeStripped(cut) ==
    FormatOr(FirstOk(FromIsoFormat(RemoveChar(cut, "Z")), FirstLayout(Strip(cut))), cut)

\* lines 253-289, on the characters of a str
NormalizeDateStr(s) == IF s = <<>> THEN <<>> ELSE NormalizeStripped(StripTime(s))

\* lines 253-289: a falsy argument gives ""; a truthy argument that is not a
\* str raises TypeError or AttributeError, which the function does not catch
_normalize_date(date_str) ==
    IF ~Truthy(date_str) THEN EmptyStr
    ELSE IF date_str.t # "str" THEN Raised
    ELSE PyStr(NormalizeDateStr(date_str.v))

-----------------------------------------------------------------------------
(* parser.py: the structured-data tier *)

S_Article     == <<"A","r","t","i","c","l","e">>
S_NewsArticle == <<"N","e","w","s">> \o S_Article
S_BlogPosting == <<"B","l","o","g","P","o","s","t","i","n","g">>
S_medium      == <<"m","e","d","i","u","m">>

\* lines 112, 114, 119: ["Article", "NewsArticle", "BlogPosting"]
ArticleTypes == {PyStr(S_Article), PyStr(S_NewsArticle), PyStr(S_BlogPosting)}

\* lines 19-28
ARTICLE_TEMPLATE ==
    [titulo |-> EmptyStr, autor |-> EmptyStr, data_publicacao |-> EmptyStr,
     tags |-> PyList(<<>>), tempo_leitura |-> EmptyStr, resumo |-> EmptyStr,
     fonte |-> PyStr(S_medium), url |-> EmptyStr]

\* lines 138-144
ParseAuthor(author) ==
    IF author.t = "dict" THEN Get(author.v, "name", EmptyStr)
    ELSE IF author.t = "list" /\ author.v # <<>>
         THEN (IF author.v[1].t = "dict"
               THEN Get(author.v[1].v, "name", EmptyStr)
               ELSE ToStr(author.v[1]))
    ELSE IF author.t = "str" THEN author
    ELSE ARTICLE_TEMPLATE.autor

\* line 159: [k.strip() for k in parts]
StripAll(parts) == [k \in 1..Len(parts) |-> PyStr(Strip(parts[k]))]

\* lines 155-159
ParseKeywords(keywords) ==
    IF keywords.t = "list" THEN keywords
    ELSE IF keywords.t = "str" THEN PyList(StripAll(Split(keywords.v, ",")))
    ELSE ARTICLE_TEMPLATE.tags

\* lines 132-164 once the date is known
ArticleWithDate(data, date) ==
    IF date = Raised THEN Raised
    ELSE PyDict([ARTICLE_TEMPLATE EXCEPT
             !.titulo = Get(data, "headline", Get(data, "name", EmptyStr)),
             !.autor = ParseAuthor(Get(data, "author", PyNone)),
             !.data_publicacao = date,
             !.resumo = Get(data, "description", EmptyStr),
             !.tags = ParseKeywords(Get(data, "keywords", PyNone)),
             !.tempo_leitura = Get(data, "timeRequired", EmptyStr)])

\* lines 147-149
DateOrTemplate(date_published) ==
    IF Truthy(date_published)
    THEN _normalize_date(date_published)
    ELSE ARTICLE_TEMPLATE.data_publicacao

\* lines 130-164; data is the content of a dict.  Raised when _normalize_date raises.
_parse_jsonld_article(data) ==
    ArticleWithDate(data, DateOrTemplate(Get(data, "datePublished", EmptyStr)))

\* no match in this block: the scan goes on with the next script
Continue == [t |-> "continue", v |-> <<>>]

\* lines 111-113, 118-120: for item in items; item.get raises AttributeError
\* on anything but a dict
RECURSIVE ScanItems(_, _)
ScanItems(items, k) ==
    IF k > Len(items) THEN Continue
    ELSE IF items[k].t # "dict" THEN Raised
    ELSE IF Get(items[k].v, "@type", PyNone) \in ArticleTypes
         THEN _parse_jsonld_article(items[k].v)
    ELSE ScanItems(items, k + 1)

\* line 118: for item in data["@graph"], whatever the type of that value
ScanGraph(g) ==
    CASE g.t = "list" -> ScanItems(g.v, 1)
      [] g.t = "dict" -> IF DOMAIN g.v = {} THEN Continue ELSE Raised
      [] g.t = "str"  -> IF g.v = <<>> THEN Continue ELSE Raised
      [] OTHER -> Raised

\* lines 105-122: one script block; data is what json.loads gives for its
\* content, NotJson when it raises JSONDecodeError (the only fault caught here)
ScanBlock(data) ==
    IF data = NotJson THEN Continue
    ELSE IF data.t = "list" THEN ScanItems(data.v, 1)
    ELSE IF data.t # "dict" THEN Raised
    ELSE IF Get(data.v, "@type", PyNone) \in ArticleTypes THEN _parse_jsonld_article(data.v)
    ELSE IF "@graph" \in DOMAIN data.v THEN ScanGraph(data.v["@graph"])
    ELSE Continue

\* lines 104-124: the scan over the scripts from the k-th on; fp is the
\* script whose inner_html raises (0: none does)
RECURSIVE ScanScripts(_, _, _)

\* a block without a match hands over to the next script
ScanOn(r, blocks, k, fp) == IF r = Continue THEN ScanScripts(blocks, k + 1, fp) ELSE r

ScanScripts(blocks, k, fp) ==
    IF k > Len(blocks) THEN PyNone
    ELSE IF k = fp THEN Raised
    ELSE ScanOn(ScanBlock(blocks[k]), blocks, k, fp)

\* lines 126-127: except Exception: return None
NoneIfRaised(r) == IF r = Raised THEN PyNone ELSE r

\* lines 94-127: fp = -1 when query_selector_all raises
_extract_from_jsonld(blocks, fp) ==
    IF fp = -1 THEN PyNone ELSE NoneIfRaised(ScanScripts(blocks, 1, fp))

-----------------------------------------------------------------------------
(* parser.py: the markup tier.  The rendered markup is a record with, for   *)
(* each selector the code queries, what the accessor it uses returns on the *)
(* first matching element: a str, None for a missing attribute, or Missing  *)
(* when no element matches.                                                *)

Missing == [t |-> "missing", v |-> <<>>]

\* lines 182-190, 200-208: walk the candidates in order; a meta element gives
\* its content attribute or "", any other element its inner text; stop at the
\* first non-empty value
RECURSIVE FieldLoop(_, _, _, _)

FieldStep_NoBreak(els, metas, k, val) == FieldLoop(els, metas, k + 1, val)

\* lines 189-190, 207-208: if article[field]: break
FieldStep(els, metas, k, val) ==
    IF Truthy(val) THEN val ELSE FieldLoop(els, metas, k + 1, val)

FieldLoop(els, metas, k, cur) ==
    IF k > Len(els) THEN cur
    ELSE IF els[k] = Missing THEN FieldLoop(els, metas, k + 1, cur)
    ELSE FieldStep(els, metas, k, IF metas[k] /\ ~Truthy(els[k]) THEN EmptyStr ELSE els[k])

\* lines 217-226: the first candidate whose attribute is non-empty is
\* normalised; Missing when none is
RECURSIVE DateLoop(_, _)
DateLoop(els, k) ==
    IF k > Len(els) THEN Missing
    ELSE IF els[k] # Missing /\ Truthy(els[k]) THEN els[k]
    ELSE DateLoop(els, k + 1)

\* list(tags): the order of a set's elements is not specified; one order is taken
RECURSIVE SetToSeq(_)
SetToSeq(xs) ==
    IF xs = {} THEN <<>>
    ELSE <<CHOOSE y \in xs : TRUE>> \o SetToSeq(xs \ {CHOOSE y \in xs : TRUE})

\* lines 234-240
HtmlTags(texts) ==
    PyList(SetToSeq({ PyStr(Lower(Strip(texts[k]))) :
                        k \in { j \in 1..Len(texts) : texts[j] # <<>> } }))

\* lines 224-226
HtmlDate(date_str) ==
    IF date_str = Missing THEN ARTICLE_TEMPLATE.data_publicacao ELSE _normalize_date(date_str)

\* lines 167-250; fault: some call on the page raises, and the function
\* returns None
_extract_from_html(h, fault) ==
    IF fault THEN PyNone
    ELSE PyDict([ARTICLE_TEMPLATE EXCEPT
            !.titulo = FieldLoop(<<h.h1, h.og_title, h.twitter_title, h.title>>,
                                 <<FALSE, TRUE, TRUE, FALSE>>, 1, ARTICLE_TEMPLATE.titulo),
            !.autor = FieldLoop(<<h.author_name, h.rel_author, h.meta_author, h.article_author>>,
                                <<FALSE, FALSE, TRUE, TRUE>>, 1, ARTICLE_TEMPLATE.autor),
            !.data_publicacao =
                HtmlDate(DateLoop(<<h.published_time, h.time_datetime, h.meta_date>>, 1)),
            !.resumo = IF h.og_description = Missing THEN ARTICLE_TEMPLATE.resumo
                       ELSE IF Truthy(h.og_description) THEN h.og_description
                       ELSE EmptyStr,
            !.tags = HtmlTags(h.tag_texts),
            !.tempo_leitura = IF h.min_read = Missing THEN ARTICLE_TEMPLATE.tempo_leitura
                              ELSE h.min_read])

NeedsMarkupTier_NoTitleCheck(md) == ~Truthy(md)

\* line 77: if not metadata or not metadata.get("titulo")
NeedsMarkupTier(md) ==
    ~Truthy(md) \/ ~Truthy(Get(md.v, "titulo", PyNone))

\* lines 80-82
Stamp(md, url) ==
    IF Truthy(md)
    THEN PyDict([md.v EXCEPT !.url = PyStr(url), !.fonte = PyStr(S_medium)])
    ELSE md

\* lines 76-78: the markup tier runs only when NeedsMarkupTier says so
TiersFrom(j, h, hfault) ==
    [jsonld |-> j,
     html_called |-> NeedsMarkupTier(j),
     md |-> IF NeedsMarkupTier(j) THEN _extract_from_html(h, hfault) ELSE j]

\* lines 73-78: both tiers on a rendered page
RunTiers(p, fp, hfault) == TiersFrom(_extract_from_jsonld(p.blocks, fp), p.html, hfault)

Retain_AnyRecord(md) == Truthy(md)

\* line 361: if metadata and metadata.get("titulo")
Retain(md) == Truthy(md) /\ Truthy(Get(md.v, "titulo", PyNone))

-----------------------------------------------------------------------------
(* parser.py: filter_articles_by_criteria *)

\* line 309: tag.lower().replace("-", " ").replace("_", " ")
TagNorm(tag) ==
    [k \in 1..Len(tag) |-> IF tag[k] \in {"-", "_"} THEN " " ELSE LowerChar(tag[k])]

RECURSIVE DigitsOf(_)
DigitsOf(n) ==
    IF n < 10 THEN <<DigitChars[n + 1]>>
    ELSE DigitsOf(n \div 10) \o <<DigitChars[(n % 10) + 1]>>

\* Python: str(year) of an int
IntToStr(n) == IF n < 0 THEN <<"-">> \o DigitsOf(0 - n) ELSE DigitsOf(n)

\* line 314: not date or not date.startswith(str(year)), negated
YearMatches(date, year) == Truthy(date) /\ StartsWith(date.v, IntToStr(year))

\* line 324: req in tag or tag in req
TagMatches(req, tag) == Contains(tag, req) \/ Contains(req, tag)

AllTagsPresent_Any(reqs, tags) ==
    \E r \in 1..Len(reqs) : \E t \in 1..Len(tags) : TagMatches(reqs[r], tags[t])

\* lines 323-326: all(any(... for tag in article_tags_lower) for req in required_tags_lower)
AllTagsPresent(reqs, tags) ==
    \A r \in 1..Len(reqs) : \E t \in 1..Len(tags) : TagMatches(reqs[r], tags[t])

\* lines 318-321: the normalized tags of a record
ArticleTagsLower(article) ==
    [k \in 1..Len(Get(article.v, "tags", PyList(<<>>)).v) |->
        TagNorm(Get(article.v, "tags", PyList(<<>>)).v[k].v)]

\* lines 312-329: the record passes the year test and then the tag test
Keeps(article, reqs, year) ==
    /\ YearMatches(Get(article.v, "data_publicacao", EmptyStr), year)
    /\ AllTagsPresent(reqs, ArticleTagsLower(article))

FilterAppend_Front(filtered, article) == <<article>> \o filtered

\* line 329: filtered.append(article)
FilterAppend(filtered, article) == Append(filtered, article)

\* lines 311-329: the loop from the k-th record on
RECURSIVE FilterFrom(_, _, _, _, _)
FilterFrom(articles, k, reqs, year, filtered) ==
    IF k > Len(articles) THEN filtered
    ELSE FilterFrom(articles, k + 1, reqs, year,
                    IF Keeps(articles[k], reqs, year)
                    THEN FilterAppend(filtered, articles[k])
                    ELSE filtered)

\* lines 292-331
filter_articles_by_criteria(articles, required_tags, year) ==
    FilterFrom(articles, 1, [k \in 1..Len(required_tags) |-> TagNorm(required_tags[k])],
               year, <<>>)

-----------------------------------------------------------------------------
(* The article pages the renderer can show *)

MaxBlocks == 2
MaxUrls == 2

T_A == <<"A">>
T_B == <<"B">>
T_C == <<"C">>
DateIso   == <<"2","0","2","5","-","0","2","-","1","0","T","0","9",":","0","0","+","0","0">>
DateSlash == <<"0","1","/","1","1","/","2","0","2","4">>
Keywords  == <<"U","X",","," ","A","I">>

ObjPerson == PyDict(("@type" :> PyStr(<<"P","e","r","s","o","n">>)) @@ [name |-> PyStr(T_C)])

\* {"@type": "Article", "headline": "A", "author": {...}, "datePublished": ..., "keywords": "UX, AI"}
ObjArticle ==
    PyDict(("@type" :> PyStr(S_Article)) @@
           [headline |-> PyStr(T_A), author |-> ObjPerson,
            datePublished |-> PyStr(DateIso), keywords |-> PyStr(Keywords)])

\* {"@type": "BlogPosting", "headline": ""}
ObjUntitled == PyDict(("@type" :> PyStr(S_BlogPosting)) @@ [headline |-> EmptyStr])

\* {"@type": "NewsArticle", "name": "A", "author": ["C"]}
ObjNews ==
    PyDict(("@type" :> PyStr(S_NewsArticle)) @@
           [name |-> PyStr(T_A), author |-> PyList(<<PyStr(T_C)>>)])

BlockScalar   == PyNum(42)
BlockListBad  == PyList(<<PyStr(T_C), ObjArticle>>)
BlockGraphBad == PyDict("@graph" :> PyList(<<PyNum(1), ObjArticle>>))
BlockGraph    == PyDict("@graph" :> PyList(<<ObjPerson, ObjNews>>))

\* the script contents a page can hold
Blocks == {NotJson, BlockScalar, BlockListBad, BlockGraphBad,
           ObjArticle, ObjUntitled, BlockGraph}

BlockSeqs == UNION { [1..n -> Blocks] : n \in 0..MaxBlocks }

HtmlBlank ==
    [h1 |-> Missing, og_title |-> Missing, twitter_title |-> Missing, title |-> Missing,
     author_name |-> Missing, rel_author |-> Missing, meta_author |-> Missing,
     article_author |-> Missing, published_time |-> Missing, time_datetime |-> Missing,
     meta_date |-> Missing, og_description |-> Missing, tag_texts |-> <<>>,
     min_read |-> Missing]

\* a page with a heading, a publication time and tag links
HtmlHeading ==
    [HtmlBlank EXCEPT !.h1 = PyStr(T_B), !.title = PyStr(T_C),
                      !.rel_author = PyStr(T_C),
                      !.published_time = PyNone, !.time_datetime = PyStr(DateSlash),
                      !.tag_texts = << <<"U","X"," ">>, <<"u","x">>, <<>> >>]

HtmlDocs == {HtmlBlank, HtmlHeading}

ArticlePages == [blocks : BlockSeqs, html : HtmlDocs]

NoPage == [blocks |-> <<>>, html |-> HtmlBlank]

NoTierFault == [fp |-> 0, html |-> FALSE]

\* the renderer faults that can hit the tiers: fp as in _extract_from_jsonld,
\* html as in _extract_from_html
TierFaults == [fp : -1..MaxBlocks, html : BOOLEAN]

\* RunTiers, tabulated once per page and fault (it is a pure function of them)
TierOutcome == [p \in ArticlePages |-> [f \in TierFaults |-> RunTiers(p, f.fp, f.html)]]

-----------------------------------------------------------------------------
(* collect_links_from_tag *)

CollectorIdle ==
    /\ feed = "none"
    /\ page_url = <<>>
    /\ doc = EmptyDoc
    /\ collected_urls = {}
    /\ scroll_count = 0
    /\ no_new_content_count = 0
    /\ old_content_found = FALSE
    /\ harvested = FALSE
    /\ last_add = 0
    /\ stop_reason = "none"
    /\ fault_at = "none"
    /\ at_fault = {}

\* no helper function has been applied
NoCall == [fn |-> "none"]

BatchIdle ==
    /\ urls = <<>>
    /\ idx = 0
    /\ results = <<>>
    /\ sleeps = 0
    /\ page = NoPage
    /\ metadata = PyNone
    /\ jsonld_result = PyNone
    /\ html_called = FALSE
    /\ tier_fault = NoTierFault
    /\ tiers_ran = FALSE
    /\ outcomes = <<>>

Init ==
    /\ pc = "idle"
    /\ playwright = "stopped"
    /\ browser = "none"
    /\ raised = FALSE
    /\ ret = {}
    /\ CollectorIdle
    /\ BatchIdle
    /\ call = NoCall

CollectSetupSteps == {"c_launch", "c_new_context", "c_add_init_script", "c_new_page"}

AfterSetup(step) ==
    CASE step = "c_launch" -> "c_new_context"
      [] step = "c_new_context" -> "c_add_init_script"
      [] step = "c_add_init_script" -> "c_new_page"
      [] step = "c_new_page" -> "c_goto"

\* lines 28-36: the call starts with an empty accumulator and enters the
\* async_playwright() scope
CollectStart ==
    /\ pc = "idle"
    /\ pc' = "c_launch"
    /\ playwright' = "running"
    /\ \E f \in {"mixed", "scroll"} : feed' = f
    /\ collected_urls' = {}
    /\ UNCHANGED <<browser, raised, ret, page_url, doc, scroll_count,
                   no_new_content_count, old_content_found, harvested,
                   last_add, stop_reason, fault_at, at_fault>>
    /\ UNCHANGED batchVars
    /\ UNCHANGED call

\* lines 47-61: launch, new_context, add_init_script, new_page succeed
CollectSetup ==
    /\ pc \in CollectSetupSteps
    /\ pc' = AfterSetup(pc)
    /\ browser' = IF pc = "c_launch" THEN "open" ELSE browser
    /\ UNCHANGED <<playwright, raised, ret, collectorVars>>
    /\ UNCHANGED batchVars
    /\ UNCHANGED call

\* a renderer fault at the current step: inside the try block it is caught
\* (lines 123-126) and control goes to finally; outside it leaves the
\* async_playwright() scope and propagates to the caller
CollectFault ==
    /\ pc \in CollectSetupSteps \cup {"c_goto", "c_title"}
    /\ fault_at' = pc
    /\ at_fault' = collected_urls
    /\ IF InTryBlock(pc)
       THEN /\ pc' = "c_finally"
            /\ UNCHANGED <<playwright, browser, raised>>
       ELSE /\ pc' = "c_done"
            /\ playwright' = "stopped"
            /\ browser' = PlaywrightStop(browser)
            /\ raised' = TRUE
    /\ UNCHANGED <<ret, feed, page_url, doc, collected_urls, scroll_count,
                   no_new_content_count, old_content_found, harvested,
                   last_add, stop_reason>>
    /\ UNCHANGED batchVars
    /\ UNCHANGED call

\* lines 66-73: navigation; the endpoint may redirect away from /latest
CollectGoto ==
    /\ pc = "c_goto"
    /\ pc' = "c_title"
    /\ \E u \in {LatestUrl, RecommendedUrl} : page_url' = u
    /\ doc' = EmptyDoc
    /\ UNCHANGED <<playwright, browser, raised, ret, feed, collected_urls,
                   scroll_count, no_new_content_count, old_content_found,
                   harvested, last_add, stop_reason, fault_at, at_fault>>
    /\ UNCHANGED batchVars
    /\ UNCHANGED call

\* lines 76-84: the challenge-page check only sleeps; the loop state is set up
CollectTitle ==
    /\ pc = "c_title"
    /\ pc' = "c_loop"
    /\ scroll_count' = 0
    /\ no_new_content_count' = 0
    /\ old_content_found' = FALSE
    /\ UNCHANGED <<playwright, browser, raised, ret, feed, page_url, doc,
                   collected_urls, harvested, last_add, stop_reason,
                   fault_at, at_fault>>
    /\ UNCHANGED batchVars
    /\ UNCHANGED call

\* lines 86-119: one full iteration of the scroll loop
CollectIteration ==
    /\ pc = "c_loop"
    /\ LoopGuard(scroll_count, old_content_found)
    /\ \E d \in NextDocs(feed, doc) :
        LET ex        == _extract_article_links(d)
            new_urls  == ex.valid_urls
            found_old == ex.found_old_content
            acc       == MergeLinks(collected_urls, new_urls)
            nn        == NextNoNewCount(collected_urls, new_urls, no_new_content_count)
        IN  /\ doc' = d
            /\ scroll_count' = scroll_count + 1
            /\ collected_urls' = acc
            /\ no_new_content_count' = nn
            /\ harvested' = TRUE
            /\ last_add' = IF acc # collected_urls THEN scroll_count + 1 ELSE last_add
            /\ IF found_old /\ IsChronological(page_url)
               THEN /\ old_content_found' = TRUE
                    /\ stop_reason' = "stale"
                    /\ pc' = "c_finally"
               ELSE IF ExhaustionStop(nn)
               THEN /\ stop_reason' = "exhausted"
                    /\ pc' = "c_finally"
                    /\ UNCHANGED old_content_found
               ELSE /\ pc' = "c_loop"
                    /\ UNCHANGED <<old_content_found, stop_reason>>
    /\ UNCHANGED <<playwright, browser, raised, ret, feed, page_url,
                   fault_at, at_fault>>
    /\ UNCHANGED batchVars
    /\ UNCHANGED call

\* line 90: the scroll script faults
CollectScrollFault ==
    /\ pc = "c_loop"
    /\ LoopGuard(scroll_count, old_content_found)
    /\ scroll_count' = scroll_count + 1
    /\ harvested' = FALSE
    /\ fault_at' = "c_scroll"
    /\ at_fault' = collected_urls
    /\ IF InTryBlock(pc)
       THEN /\ pc' = "c_finally"
            /\ UNCHANGED <<playwright, browser, raised>>
       ELSE /\ pc' = "c_done"
            /\ playwright' = "stopped"
            /\ browser' = PlaywrightStop(browser)
            /\ raised' = TRUE
    /\ UNCHANGED <<ret, feed, page_url, doc, collected_urls,
                   no_new_content_count, old_content_found, last_add, stop_reason>>
    /\ UNCHANGED batchVars
    /\ UNCHANGED call

\* lines 90-93, 149: the scroll succeeds, the link-harvest script faults
CollectHarvestFault ==
    /\ pc = "c_loop"
    /\ LoopGuard(scroll_count, old_content_found)
    /\ scroll_count' = scroll_count + 1
    /\ \E d \in NextDocs(feed, doc) : doc' = d
    /\ harvested' = FALSE
    /\ fault_at' = "c_harvest"
    /\ at_fault' = collected_urls
    /\ IF InTryBlock(pc)
       THEN /\ pc' = "c_finally"
            /\ UNCHANGED <<playwright, browser, raised>>
       ELSE /\ pc' = "c_done"
            /\ playwright' = "stopped"
            /\ browser' = PlaywrightStop(browser)
            /\ raised' = TRUE
    /\ UNCHANGED <<ret, feed, page_url, collected_urls,
                   no_new_content_count, old_content_found, last_add, stop_reason>>
    /\ UNCHANGED batchVars
    /\ UNCHANGED call

\* line 86: the loop condition fails
CollectLoopExit ==
    /\ pc = "c_loop"
    /\ ~LoopGuard(scroll_count, old_content_found)
    /\ pc' = "c_finally"
    /\ stop_reason' = IF old_content_found THEN "stale" ELSE "cap"
    /\ UNCHANGED <<playwright, browser, raised, ret, feed, page_url, doc,
                   collected_urls, scroll_count, no_new_content_count,
                   old_content_found, harvested, last_add, fault_at, at_fault>>
    /\ UNCHANGED batchVars
    /\ UNCHANGED call

\* lines 128-131: finally closes the browser, the scope ends, the list is returned
CollectFinally ==
    /\ pc = "c_finally"
    /\ pc' = "c_done"
    /\ browser' = "closed"
    /\ playwright' = "stopped"
    /\ raised' = FALSE
    /\ ret' = collected_urls
    /\ UNCHANGED collectorVars
    /\ UNCHANGED batchVars
    /\ UNCHANGED call

\* the caller takes the result; the next call starts from fresh locals
CallReturn ==
    /\ pc \in {"c_done", "b_done"}
    /\ pc' = "idle"
    /\ playwright' = "stopped"
    /\ browser' = "none"
    /\ raised' = FALSE
    /\ ret' = {}
    /\ feed' = "none"
    /\ page_url' = <<>>
    /\ doc' = EmptyDoc
    /\ collected_urls' = {}
    /\ scroll_count' = 0
    /\ no_new_content_count' = 0
    /\ old_content_found' = FALSE
    /\ harvested' = FALSE
    /\ last_add' = 0
    /\ stop_reason' = "none"
    /\ fault_at' = "none"
    /\ at_fault' = {}
    /\ urls' = <<>>
    /\ idx' = 0
    /\ results' = <<>>
    /\ sleeps' = 0
    /\ page' = NoPage
    /\ metadata' = PyNone
    /\ jsonld_result' = PyNone
    /\ html_called' = FALSE
    /\ tier_fault' = NoTierFault
    /\ tiers_ran' = FALSE
    /\ outcomes' = <<>>
    /\ UNCHANGED call

CollectorNext ==
    \/ CollectStart
    \/ CollectSetup
    \/ CollectFault
    \/ CollectGoto
    \/ CollectTitle
    \/ CollectIteration
    \/ CollectScrollFault
    \/ CollectHarvestFault
    \/ CollectLoopExit
    \/ CollectFinally

-----------------------------------------------------------------------------
(* process_articles_batch and extract_article_metadata *)

ExtractSetupSteps == {"e_launch", "e_new_context", "e_add_init_script", "e_new_page"}

AfterExtractSetup(step) ==
    CASE step = "e_launch" -> "e_new_context"
      [] step = "e_new_context" -> "e_add_init_script"
      [] step = "e_add_init_script" -> "e_new_page"
      [] step = "e_new_page" -> "e_goto"

\* the i-th reference handed to the batch
BatchUrl(i) == FeedHref(i)

\* parser.py lines 68-88: the steps of extract_article_metadata inside try/except
InExtractTry(step) == step \in {"e_goto", "e_tiers"}

\* parser.py lines 350-359: the batch starts; an empty input returns at once,
\* otherwise the first extraction enters its async_playwright() scope
BatchStart ==
    /\ pc = "idle"
    /\ \E n \in 0..MaxUrls :
        /\ urls' = [i \in 1..n |-> BatchUrl(i)]
        /\ pc' = IF n = 0 THEN "b_done" ELSE "e_launch"
        /\ playwright' = IF n = 0 THEN "stopped" ELSE "running"
    /\ idx' = 1
    /\ results' = <<>>
    /\ UNCHANGED <<browser, raised, ret, collectorVars, sleeps, page, metadata,
                   jsonld_result, html_called, tier_fault, tiers_ran, outcomes>>
    /\ UNCHANGED call

\* parser.py lines 52-66: launch, new_context, add_init_script, new_page succeed
ExtractSetup ==
    /\ pc \in ExtractSetupSteps
    /\ pc' = AfterExtractSetup(pc)
    /\ browser' = IF pc = "e_launch" THEN "open" ELSE browser
    /\ UNCHANGED <<playwright, raised, ret, collectorVars, batchVars>>
    /\ UNCHANGED call

\* a renderer fault at the current step of the extraction: inside the try
\* block (lines 86-88) the call returns None; outside it the fault leaves the
\* async_playwright() scope, leaves extract_article_metadata and, uncaught at
\* line 359, leaves process_articles_batch
ExtractFault ==
    /\ pc \in ExtractSetupSteps \cup {"e_goto"}
    /\ IF InExtractTry(pc)
       THEN /\ pc' = "e_finally"
            /\ metadata' = PyNone
            /\ UNCHANGED <<playwright, browser, raised>>
       ELSE /\ pc' = "b_done"
            /\ playwright' = "stopped"
            /\ browser' = PlaywrightStop(browser)
            /\ raised' = TRUE
            /\ UNCHANGED metadata
    /\ UNCHANGED <<ret, collectorVars, urls, idx, results, sleeps, page,
                   jsonld_result, html_called, tier_fault, tiers_ran, outcomes>>
    /\ UNCHANGED call

\* parser.py lines 70-71: navigation succeeds
ExtractGoto ==
    /\ pc = "e_goto"
    /\ pc' = "e_tiers"
    /\ UNCHANGED <<playwright, browser, raised, ret, collectorVars, batchVars>>
    /\ UNCHANGED call

\* parser.py lines 73-84: the tiers run on the rendered page; calls on the
\* page may fault inside either tier
ExtractEvaluate ==
    /\ pc = "e_tiers"
    /\ \E p \in ArticlePages, f \in TierFaults :
        LET r == TierOutcome[p][f]
        IN  /\ f.fp <= Len(p.blocks)
            /\ f.html => r.html_called
            /\ page' = p
            /\ tier_fault' = f
            /\ tiers_ran' = TRUE
            /\ jsonld_result' = r.jsonld
            /\ html_called' = r.html_called
            /\ metadata' = Stamp(r.md, urls[idx])
    /\ pc' = "e_finally"
    /\ UNCHANGED <<playwright, browser, raised, ret, collectorVars,
                   urls, idx, results, sleeps, outcomes>>
    /\ UNCHANGED call

\* parser.py lines 84-91: finally closes the browser, the scope ends, the
\* call returns metadata
ExtractFinally ==
    /\ pc = "e_finally"
    /\ pc' = "b_collect"
    /\ browser' = "closed"
    /\ playwright' = "stopped"
    /\ UNCHANGED <<raised, ret, collectorVars, batchVars>>
    /\ UNCHANGED call

\* parser.py lines 367-368: if i < total: await asyncio.sleep(delay_between)
PacingDue(i, total) == i < total

\* parser.py lines 361-373: keep the record or drop it, pace, go on to the
\* next reference or return
BatchCollect ==
    /\ pc = "b_collect"
    /\ results' = IF Retain(metadata) THEN Append(results, metadata) ELSE results
    /\ outcomes' = Append(outcomes, metadata)
    /\ sleeps' = IF PacingDue(idx, Len(urls)) THEN sleeps + 1 ELSE sleeps
    /\ idx' = idx + 1
    /\ pc' = IF idx < Len(urls) THEN "e_launch" ELSE "b_done"
    /\ playwright' = IF idx < Len(urls) THEN "running" ELSE playwright
    /\ page' = NoPage
    /\ metadata' = PyNone
    /\ jsonld_result' = PyNone
    /\ html_called' = FALSE
    /\ tier_fault' = NoTierFault
    /\ tiers_ran' = FALSE
    /\ UNCHANGED <<browser, raised, ret, collectorVars, urls>>
    /\ UNCHANGED call

BatchNext ==
    \/ BatchStart
    \/ ExtractSetup
    \/ ExtractFault
    \/ ExtractGoto
    \/ ExtractEvaluate
    \/ ExtractFinally
    \/ BatchCollect

Next ==
    \/ CollectorNext
    \/ BatchNext
    \/ CallReturn

Spec == Init /\ [][Next]_vars

-----------------------------------------------------------------------------
(* The helper functions, each called on its own with arguments drawn from  *)
(* a bounded set.  call records the function, its arguments and its return *)
(* value.                                                                  *)

mainVars == <<sessionVars, collectorVars, batchVars>>

\* the texts a date field can hold: a body, optionally after whitespace,
\* optionally followed by a time of day, an offset, a zone letter or whitespace
DateBodies == {
    <<"2","0","2","5","-","0","3","-","1","4">>,
    <<"2","0","2","5","-","3","-","4">>,
    <<"1","4","/","0","3","/","2","0","2","5">>,
    <<"0","3","/","0","4","/","2","0","2","5">>,
    <<"0","3","/","1","4","/","2","0","2","5">>,
    <<"3","1","/","0","4","/","2","0","2","5">>,
    <<"2","0","2","5","-","0","2","-","3","0">>,
    <<"M","a","r","c","h"," ","5",","," ","2","0","2","5">>,
    <<"M","a","r"," ","5",","," ","2","0","2","5">>,
    <<"m","a","y"," ","5",","," ","2","0","2","5">>,
    <<"T","u","e","s","d","a","y">>,
    <<"T","o","d","a","y">>,
    <<"n","/","a">>,
    <<"1","+","1">>,
    <<>>,
    <<"2","0","2","5">>,
    <<"s","o","o","n">> }

DatePrefixes == { <<>>, <<" ">> }

DateSuffixes == {
    <<>>,
    <<"T","1","0",":","0","0",":","0","0">>,
    <<"+","0","0",":","0","0">>,
    <<"T","1","0",":","0","0",":","0","0","+","0","0",":","0","0">>,
    <<"Z">>,
    <<" ">>,
    <<"T">> }

DateInputs == { p \o b \o x : p \in DatePrefixes, b \in DateBodies, x \in DateSuffixes }

\* _normalize_date(date_str) is called and returns
NormalizeDateCall ==
    /\ pc = "idle"
    /\ call = NoCall
    /\ \E s \in DateInputs :
        call' = [fn |-> "_normalize_date", date_str |-> s, ret |-> _normalize_date(PyStr(s))]
    /\ UNCHANGED mainVars

MaxArticles == 2

\* the category lists a record can carry
TagLists == {
    <<>>,
    <<<<"u","x","-","d","e","s","i","g","n">>>>,
    <<<<"u","x"," ","d","e","s","i","g","n">>, <<"a","r","t","i","f","i","c","i","a","l"," ","i","n","t","e","l","l","i","g","e","n","c","e">>>>,
    <<<<"U","X","_","D","e","s","i","g","n">>, <<"A","r","t","i","f","i","c","i","a","l","-","I","n","t","e","l","l","i","g","e","n","c","e">>>>,
    <<<<"u","x">>>>,
    <<<<"f","i","g","m","a">>>>,
    <<<<>>>>,
    <<<<"a","r","t","i","f","i","c","i","a","l"," ","i","n","t","e","l","l","i","g","e","n","c","e"," ","r","e","s","e","a","r","c","h">>, <<"u","x"," ","d","e","s","i","g","n"," ","s","y","s","t","e","m","s">>>> }

\* the publication dates a record can carry: in the year, in the year
\* before, none
PubDates == { <<"2","0","2","5","-","0","6","-","0","1">>, <<"2","0","2","4","-","1","2","-","3","1">>, <<>> }

FilterRecords ==
    { PyDict([ARTICLE_TEMPLATE EXCEPT
                !.titulo = PyStr(T_A),
                !.data_publicacao = PyStr(d),
                !.tags = PyList([k \in 1..Len(l) |-> PyStr(l[k])])]) :
      d \in PubDates, l \in TagLists }

ArticleLists == UNION { [1..n -> FilterRecords] : n \in 0..MaxArticles }

RequiredTagLists == {
    <<>>,
    <<<<"u","x","-","d","e","s","i","g","n">>>>,
    <<<<"u","x","-","d","e","s","i","g","n">>, <<"a","r","t","i","f","i","c","i","a","l","-","i","n","t","e","l","l","i","g","e","n","c","e">>>>,
    <<<<"U","X","_","D","E","S","I","G","N">>, <<"a","i">>>> }

FilterYears == {2024, 2025}

\* filter_articles_by_criteria(articles, required_tags, year) is called and
\* returns; articles is the caller's list as it is after the call
FilterCall ==
    /\ pc = "idle"
    /\ call = NoCall
    /\ \E a \in ArticleLists, r \in RequiredTagLists, y \in FilterYears :
        call' = [fn |-> "filter_articles_by_criteria",
                 given |-> a, articles |-> a, required_tags |-> r, year |-> y,
                 ret |-> filter_articles_by_criteria(a, r, y)]
    /\ UNCHANGED mainVars

\* the hrefs a link can carry: a path, optionally with an exclusion marker,
\* optionally ending in a content-id suffix, optionally followed by a query
\* string, a fragment or a newline
UrlBases == {
    <<>>,
    <<"/","@","u","/">> \o Rep("x", 37),
    <<"/","p">>,
    <<"/","@","u">> }

UrlMarkers == {
    <<>>,
    <<"/","t","a","g","/">>,
    <<"/","T","A","G","/">>,
    <<"/","s","e","a","r","c","h">>,
    <<"/","m","e","/">>,
    <<"/","a","b","o","u","t">>,
    <<"/","f","o","l","l","o","w","e","r","s">>,
    <<"/","l","i","s","t","s">>,
    <<"/","t","o","p","i","c","s">>,
    <<"/","a","r","c","h","i","v","e">>,
    <<"s","i","g","n","i","n">>,
    <<"S","i","g","n","U","p">> }

UrlTails == {
    <<>>,
    <<"-","a","b","c","d","e","f","1","2">>,
    <<"-","A","B","C","D","E","F","1","2">>,
    <<"-","a","b","c","d","e","f","1">> }

UrlSuffixes == {
    <<>>,
    <<"?","s","=","1">>,
    <<"#","t","o","p">>,
    <<"?","s","o","u","r","c","e","=","r","s","s">>,
    <<"?","a","=","1","#","b">>,
    <<"#","a","?","b">>,
    <<"\n">> }

UrlInputs == { b \o m \o t \o x : b \in UrlBases, m \in UrlMarkers, t \in UrlTails, x \in UrlSuffixes }

\* _is_article_url(url) is called and returns
IsArticleUrlCall ==
    /\ pc = "idle"
    /\ call = NoCall
    /\ \E x \in UrlInputs :
        call' = [fn |-> "_is_article_url", url |-> x, ret |-> _is_article_url(x)]
    /\ UNCHANGED mainVars

\* _normalize_url(url) is called and returns
NormalizeUrlCall ==
    /\ pc = "idle"
    /\ call = NoCall
    /\ \E x \in UrlInputs :
        call' = [fn |-> "_normalize_url", url |-> x, ret |-> _normalize_url(x)]
    /\ UNCHANGED mainVars

\* the harvest pass of _extract_article_links over a document with one link
HarvestCall ==
    /\ pc = "idle"
    /\ call = NoCall
    /\ \E x \in UrlInputs :
        call' = [fn |-> "_extract_article_links", href |-> x, valid_urls |-> HarvestHref(x)]
    /\ UNCHANGED mainVars

\* what a candidate location can give: no element, an element without the
\* attribute, an element with empty content, an element with the given text
Candidate(text, meta) ==
    IF meta THEN {Missing, PyNone, PyStr(text)} ELSE {Missing, EmptyStr, PyStr(text)}

DateCandidate(text) == {Missing, PyNone, EmptyStr, PyStr(text)}

T_D == <<"D">>
DateWord == <<"T","u","e","s","d","a","y">>

\* pages that differ in the candidates of one field, over a page that has
\* nothing else and over a page that has the other fields
HtmlTitleDocs ==
    { [b EXCEPT !.h1 = c1, !.og_title = c2, !.twitter_title = c3, !.title = c4] :
        b \in HtmlDocs, c1 \in Candidate(T_A, FALSE), c2 \in Candidate(T_B, TRUE),
        c3 \in Candidate(T_C, TRUE), c4 \in Candidate(T_D, FALSE) }

HtmlAuthorDocs ==
    { [b EXCEPT !.author_name = c1, !.rel_author = c2, !.meta_author = c3,
                !.article_author = c4] :
        b \in HtmlDocs, c1 \in Candidate(T_A, FALSE), c2 \in Candidate(T_B, FALSE),
        c3 \in Candidate(T_C, TRUE), c4 \in Candidate(T_D, TRUE) }

HtmlDateDocs ==
    { [b EXCEPT !.published_time = c1, !.time_datetime = c2, !.meta_date = c3] :
        b \in HtmlDocs, c1 \in DateCandidate(DateIso), c2 \in DateCandidate(DateWord),
        c3 \in DateCandidate(DateSlash) }

HtmlInputs == HtmlTitleDocs \cup HtmlAuthorDocs \cup HtmlDateDocs

\* _extract_from_html(page) is called on a rendered page and returns
ExtractFromHtmlCall ==
    /\ pc = "idle"
    /\ call = NoCall
    /\ \E h \in HtmlInputs :
        call' = [fn |-> "_extract_from_html", html |-> h, ret |-> _extract_from_html(h, FALSE)]
    /\ UNCHANGED mainVars

\* the caller takes the return value
CallDone ==
    /\ call # NoCall
    /\ call' = NoCall
    /\ UNCHANGED mainVars

PureNext ==
    \/ NormalizeDateCall
    \/ FilterCall
    \/ IsArticleUrlCall
    \/ NormalizeUrlCall
    \/ HarvestCall
    \/ ExtractFromHtmlCall
    \/ CallDone

PureSpec == Init /\ [][PureNext]_vars

-----------------------------------------------------------------------------
(* Properties of collect_links_from_tag *)

LoopPositions == {"c_loop", "c_finally", "c_done"}

\* C1: after every harvest pass the accumulator contains the canonical form
\* of every href of the rendered document that _is_article_url accepts.
C1_HarvestComplete ==
    (pc \in LoopPositions /\ harvested) =>
        \A h \in doc.hrefs :
            (h # <<>> /\ _is_article_url(h)) => _normalize_url(h) \in collected_urls

\* C2: the loop never runs on once six consecutive iterations have added
\* nothing: an iteration is at most six past the last one that added a
\* reference, and the loop is only still running when it is fewer than six.
C2_ExhaustionStop ==
    /\ scroll_count - last_add <= 6
    /\ pc = "c_loop" => scroll_count - last_add < 6

\* a feed that stops yielding after iteration 3 is stopped at iteration 9
C2_Witness ==
    /\ pc = "c_done"
    /\ stop_reason = "exhausted"
    /\ last_add = 3
    /\ scroll_count = 9

\* C3: an iteration stops the run on the stale-content signal exactly when the
\* page URL is chronological and the rendered document shows an item older
\* than the cutoff year.
C3_StaleStop ==
    (pc \in LoopPositions /\ harvested) =>
        ((stop_reason = "stale") <=> (IsChronological(page_url) /\ doc.old))

\* C4: a renderer fault inside the run is not propagated and the call returns
\* exactly what was accumulated before the fault.
C4_FaultReturnsPartial ==
    (pc = "c_done" /\ fault_at \in {"c_goto", "c_title", "c_scroll", "c_harvest"}) =>
        (~raised /\ ret = at_fault)

\* a harvest fault after references were accumulated
C4_Witness ==
    /\ pc = "c_done"
    /\ fault_at = "c_harvest"
    /\ at_fault # {}
    /\ ret = at_fault
    /\ ~raised

\* C6: the scroll loop never executes more than 150 iterations, and a run that
\* ends at the cap returns the accumulator as a normal result.
C6_BoundedRun ==
    /\ scroll_count <= 150
    /\ (pc = "c_done" /\ stop_reason = "cap") =>
          (~raised /\ ret = collected_urls /\ fault_at = "none")

\* a run that was ended by the iteration cap
C6_Witness ==
    /\ pc = "c_done"
    /\ stop_reason = "cap"
    /\ scroll_count = 150
    /\ ret # {}

-----------------------------------------------------------------------------
(* Properties of the sessions, of extract_article_metadata and of         *)
(* process_articles_batch                                                  *)

\* C5: no call ends with its browser session still open: when
\* collect_links_from_tag has ended, and when extract_article_metadata has
\* ended (normally, or by a fault at any step after launch), the browser it
\* launched is closed and its async_playwright() scope has stopped.
C5_SessionTornDown ==
    pc \in {"c_done", "b_collect", "b_done"} =>
        (browser # "open" /\ playwright = "stopped")

\* a collection run whose context creation faulted, after the launch
C5_Witness ==
    /\ pc = "c_done"
    /\ fault_at = "c_new_context"
    /\ raised
    /\ browser = "closed"
    /\ playwright = "stopped"

\* C7: a fault for one reference never makes the batch raise, and the
\* extractor has been invoked for every reference of the input when the
\* batch ends.
C7_FaultIsolated ==
    pc = "b_done" => (~raised /\ Len(outcomes) = Len(urls))

\* the extraction gave a record whose title is a non-empty text
Usable(md) ==
    /\ md.t = "dict"
    /\ md.v.titulo.t = "str"
    /\ md.v.titulo.v # <<>>

\* C8: the output of the batch is, in input order, exactly the extraction
\* results that are records with a non-empty title; at a normal return every
\* reference has been extracted, so the output length is the number of such
\* references.
C8_OutputIsUsableRecords ==
    /\ results = SelectSeq(outcomes, Usable)
    /\ (pc = "b_done" /\ ~raised) => Len(outcomes) = Len(urls)

\* a batch of two references that kept one record and dropped an untitled one
C8_Witness ==
    /\ pc = "b_done"
    /\ ~raised
    /\ Len(urls) = 2
    /\ Len(results) = 1
    /\ outcomes[1].t = "dict"
    /\ ~Usable(outcomes[1])
    /\ results[1] = outcomes[2]

\* the structured-data tier yielded a record with a non-empty title
TitledRecord(j) == j # PyNone /\ j.v.titulo # EmptyStr

\* C9: once the tiers have run, the markup tier was evaluated exactly when
\* the structured-data tier yielded nothing or a record with an empty title,
\* and a titled record of the structured-data tier is the result (stamped
\* with the reference and the source).
C9_TierOrdering ==
    (pc \in {"e_finally", "b_collect"} /\ tiers_ran) =>
        /\ html_called <=> ~TitledRecord(jsonld_result)
        /\ TitledRecord(jsonld_result) => metadata = Stamp(jsonld_result, urls[idx])

\* the structured-data tier gave an untitled record and the markup tier ran
C9_Witness ==
    /\ pc = "e_finally"
    /\ tiers_ran
    /\ jsonld_result # PyNone
    /\ jsonld_result.v.titulo = EmptyStr
    /\ html_called
    /\ Usable(metadata)

\* a block that is not JSON, or JSON of an unexpected shape
Malformed(b) == b \in {NotJson, BlockScalar, BlockListBad, BlockGraphBad}

\* a block holding an object of a recognized article-like type
ArticleObject(b) ==
    /\ b.t = "dict"
    /\ "@type" \in DOMAIN b.v
    /\ b.v["@type"] \in ArticleTypes

\* C10: when the rendered document holds malformed blocks followed by a
\* block with an article object, and no call on the page faults, the
\* structured-data tier returns the record of that object.
C10_MalformedSkipped ==
    (pc = "e_finally" /\ tiers_ran /\ tier_fault = NoTierFault) =>
        \A j \in 2..Len(page.blocks) :
            (/\ ArticleObject(page.blocks[j])
             /\ \A i \in 1..(j - 1) : Malformed(page.blocks[i]))
            => jsonld_result = _parse_jsonld_article(page.blocks[j].v)

-----------------------------------------------------------------------------
(* Properties of _normalize_date *)

\* the first parse among the ISO calendar date and the layouts day/month/year,
\* month/day/year, "Month d, YYYY", "Mon d, YYYY", in that order
ListedParse(s) ==
    FirstOk(FromIsoFormat(s),
    FirstOk(StrptimeDmy(s),
    FirstOk(StrptimeMdy(s),
    FirstOk(StrptimeNamed(s, MonthNames),
            StrptimeNamed(s, MonthAbbrs)))))

\* the text matches no layout at all: not as given, not without its time of
\* day and offset, and not under the year-month-day layout either
Unmatched(s) ==
    /\ ~ListedParse(s).ok
    /\ ~ListedParse(StripTime(s)).ok
    /\ ~FirstOk(FromIsoFormat(RemoveChar(StripTime(s), "Z")), FirstLayout(Strip(StripTime(s)))).ok

\* C11: for a text that matches no layout, _normalize_date returns the text
\* unchanged, does not raise, and returns the empty text only for the empty
\* text.
C11_PassThrough ==
    (call.fn = "_normalize_date" /\ Unmatched(call.date_str)) =>
        /\ call.ret = PyStr(call.date_str)
        /\ call.ret = EmptyStr => call.date_str = <<>>

\* C12: when the text without its time of day and offset parses as an ISO
\* calendar date or under one of the listed layouts, _normalize_date returns
\* the YYYY-MM-DD form of the first of them that parses.
C12_CanonicalOutput ==
    (call.fn = "_normalize_date" /\ ListedParse(StripTime(call.date_str)).ok) =>
        call.ret = PyStr(FormatDate(ListedParse(StripTime(call.date_str))))

\* an ambiguous a/b/YYYY with a time of day attached is read as day/month
C12_Witness ==
    /\ call.fn = "_normalize_date"
    /\ call.date_str = <<"0","3","/","0","4","/","2","0","2","5","T","1","0",":","0","0",":","0","0">>
    /\ call.ret = PyStr(<<"2","0","2","5","-","0","4","-","0","3">>)

-----------------------------------------------------------------------------
(* Properties of filter_articles_by_criteria *)

\* lower-casing and hyphen/underscore-to-space normalization, per character
Normalized(t) ==
    [k \in 1..Len(t) |->
        IF t[k] = "-" \/ t[k] = "_" THEN " "
        ELSE IF \E j \in 1..26 : UpperChars[j] = t[k]
             THEN LowerChars[CHOOSE j \in 1..26 : UpperChars[j] = t[k]]
             ELSE t[k]]

\* a is a substring of b
SubstringOf(a, b) ==
    \E i \in 0..(Len(b) - Len(a)) : \A k \in 1..Len(a) : b[i + k] = a[k]

\* the keep decision as the claim words it
ShouldKeep(article, required_tags, year) ==
    /\ article.v.data_publicacao.v # <<>>
    /\ Len(article.v.data_publicacao.v) >= Len(IntToStr(year))
    /\ SubSeq(article.v.data_publicacao.v, 1, Len(IntToStr(year))) = IntToStr(year)
    /\ \A r \in 1..Len(required_tags) :
          \E t \in 1..Len(article.v.tags.v) :
              \/ SubstringOf(Normalized(required_tags[r]), Normalized(article.v.tags.v[t].v))
              \/ SubstringOf(Normalized(article.v.tags.v[t].v), Normalized(required_tags[r]))

\* C13: filter_articles_by_criteria keeps a record if and only if its date is
\* non-empty and begins with the year, and every required category matches
\* one of the record's categories under the normalization, as a substring in
\* either direction.
C13_KeepDecision ==
    call.fn = "filter_articles_by_criteria" =>
        call.ret = SelectSeq(call.given,
                             LAMBDA a : ShouldKeep(a, call.required_tags, call.year))

\* {"ux-design"} is dropped and {"ux design", "artificial intelligence"} is
\* kept against the two required categories, in the year 2025
C13_Witness ==
    /\ call.fn = "filter_articles_by_criteria"
    /\ call.year = 2025
    /\ call.required_tags = <<<<"u","x","-","d","e","s","i","g","n">>, <<"a","r","t","i","f","i","c","i","a","l","-","i","n","t","e","l","l","i","g","e","n","c","e">>>>
    /\ Len(call.given) = 2
    /\ call.given[1].v.tags.v = <<PyStr(<<"u","x","-","d","e","s","i","g","n">>)>>
    /\ call.given[1].v.data_publicacao = call.given[2].v.data_publicacao
    /\ call.given[2].v.tags.v = <<PyStr(<<"u","x"," ","d","e","s","i","g","n">>), PyStr(<<"a","r","t","i","f","i","c","i","a","l"," ","i","n","t","e","l","l","i","g","e","n","c","e">>)>>
    /\ call.ret = <<call.given[2]>>

\* out is in, with some elements left out
RECURSIVE IsSubsequence(_, _)
IsSubsequence(out, in) ==
    IF out = <<>> THEN TRUE
    ELSE IF in = <<>> THEN FALSE
    ELSE IF Head(out) = Head(in) THEN IsSubsequence(Tail(out), Tail(in))
    ELSE IsSubsequence(out, Tail(in))

\* C14: the output of filter_articles_by_criteria is a subsequence of its
\* input, and the input list and its records are the same after the call.
C14_PureOrderPreserving ==
    call.fn = "filter_articles_by_criteria" =>
        /\ IsSubsequence(call.ret, call.given)
        /\ call.articles = call.given

\* two different records survive, in their input order
C14_Witness ==
    /\ call.fn = "filter_articles_by_criteria"
    /\ Len(call.given) = 2
    /\ call.given[1] # call.given[2]
    /\ call.ret = call.given
    /\ call.articles = call.given

-----------------------------------------------------------------------------
(* Properties of _is_article_url and _normalize_url *)

\* the text contains an exclusion marker, whatever its case
HasExclusionMarker(url) == \E b \in BadMarkers : SubstringOf(b, Normalized(url))

\* C15: _is_article_url returns False for the empty string and for every
\* string that contains an exclusion marker, whatever else it matches; and a
\* reference that a harvest pass stores contains no exclusion marker.
C15_ExclusionDominates ==
    /\ (call.fn = "_is_article_url" /\ (call.url = <<>> \/ HasExclusionMarker(call.url)))
          => call.ret = FALSE
    /\ call.fn = "_extract_article_links" =>
          \A u \in call.valid_urls : ~HasExclusionMarker(u)

\* a profile path longer than 40 characters that ends in a content id and
\* contains /TAG/ is rejected
C15_Witness ==
    /\ call.fn = "_is_article_url"
    /\ call.url = <<"/","@","u","/">> \o Rep("x", 37) \o <<"/","T","A","G","/","-","a","b","c","d","e","f","1","2">>
    /\ call.ret = FALSE

\* the prefix of url before the first "?" or "#"
CanonicalPrefix(url) ==
    IF \E k \in 1..Len(url) : url[k] \in {"?", "#"}
    THEN SubSeq(url, 1, (CHOOSE k \in 1..Len(url) :
                            /\ url[k] \in {"?", "#"}
                            /\ \A j \in 1..(k - 1) : url[j] \notin {"?", "#"}) - 1)
    ELSE url

\* C16: _normalize_url applied to its own result changes nothing, and its
\* result is the prefix of the argument before the first "?" or "#".
C16_Idempotent ==
    call.fn = "_normalize_url" =>
        /\ _normalize_url(call.ret) = call.ret
        /\ call.ret = CanonicalPrefix(call.url)

\* a fragment that itself contains a question mark
C16_Witness ==
    /\ call.fn = "_normalize_url"
    /\ call.url = <<"/","p","-","a","b","c","d","e","f","1","2","#","a","?","b">>
    /\ call.ret = <<"/","p","-","a","b","c","d","e","f","1","2">>

\* C17: every reference in the accumulator of a collection run, and in what
\* the run returns, contains neither "?" nor "#".
C17_AccumulatorCanonical ==
    \A u \in collected_urls \cup ret : \A k \in 1..Len(u) : u[k] \notin {"?", "#"}

\* a link with a query string was harvested and stored without it
C17_Witness ==
    /\ pc = "c_done"
    /\ HrefProfile \in doc.hrefs
    /\ CanonicalPrefix(HrefProfile) \in ret
    /\ HrefProfile \notin ret

\* C20: _is_article_url gives the same answer for an href and for its
\* canonical form, so a harvest pass stores the reference of two hrefs that
\* differ only in query string or fragment for both or for neither.
C20_QueryIndependent ==
    call.fn = "_is_article_url" =>
        call.ret = _is_article_url(_normalize_url(call.url))

-----------------------------------------------------------------------------
(* Properties of _extract_from_html *)

\* the candidate location yields non-empty content
HasContent(c) == c.t = "str" /\ c.v # <<>>

\* the content of the first candidate, in order, that has some; empty when
\* none has
FirstContent(cands) ==
    IF \E k \in 1..Len(cands) : HasContent(cands[k])
    THEN cands[CHOOSE k \in 1..Len(cands) :
                   HasContent(cands[k]) /\ \A j \in 1..(k - 1) : ~HasContent(cands[j])]
    ELSE EmptyStr

\* C19: _extract_from_html sets title, author and publication date each from
\* the first of its candidate locations, in the listed order, that yields
\* non-empty content (the date in normalized form), leaves the field empty
\* when none does, and does so for each field whatever the others find.
C19_FieldPrecedence ==
    call.fn = "_extract_from_html" =>
        /\ call.ret.t = "dict"
        /\ call.ret.v.titulo =
              FirstContent(<<call.html.h1, call.html.og_title,
                             call.html.twitter_title, call.html.title>>)
        /\ call.ret.v.autor =
              FirstContent(<<call.html.author_name, call.html.rel_author,
                             call.html.meta_author, call.html.article_author>>)
        /\ call.ret.v.data_publicacao =
              _normalize_date(FirstContent(<<call.html.published_time,
                                             call.html.time_datetime, call.html.meta_date>>))

\* no heading and an og:title without content: the title comes from the
\* third candidate, and the author and the date are extracted all the same
C19_Witness ==
    /\ call.fn = "_extract_from_html"
    /\ call.html.h1 = Missing
    /\ call.html.og_title = PyNone
    /\ call.html.twitter_title = PyStr(T_C)
    /\ call.html.title = PyStr(T_D)
    /\ call.ret.v.titulo = PyStr(T_C)
    /\ call.ret.v.autor # EmptyStr
    /\ call.ret.v.data_publicacao # EmptyStr

-----------------------------------------------------------------------------
(* Properties of the sequencing of process_articles_batch *)

ExtractPositions == ExtractSetupSteps \cup {"e_goto", "e_tiers", "e_finally", "b_collect"}

\* C18: the extractor is invoked once per reference, in input order and one
\* after another: invocation i runs when exactly i - 1 invocations have
\* returned and i - 1 pacing delays were taken, a session is launched only
\* when no session is open, every record carries the reference at its
\* position of the input, and a batch of n references ends after n
\* invocations and n - 1 delays (none for an empty input).
C18_BatchSequencing ==
    /\ pc \in ExtractPositions =>
          /\ idx = Len(outcomes) + 1
          /\ idx <= Len(urls)
          /\ sleeps = idx - 1
    /\ pc = "e_launch" => browser # "open"
    /\ \A i \in 1..Len(outcomes) :
          outcomes[i] # PyNone => outcomes[i].v.url = PyStr(BatchUrl(i))
    /\ pc = "b_done" =>
          /\ Len(outcomes) = Len(urls)
          /\ sleeps = IF Len(urls) = 0 THEN 0 ELSE Len(urls) - 1

-----------------------------------------------------------------------------
(* Properties of the category match of filter_articles_by_criteria *)

\* the required category is matched by a non-empty category of the record
MatchedByRealCategory(req, article) ==
    \E t \in 1..Len(article.v.tags.v) :
        /\ article.v.tags.v[t].v # <<>>
        /\ \/ SubstringOf(Normalized(req), Normalized(article.v.tags.v[t].v))
           \/ SubstringOf(Normalized(article.v.tags.v[t].v), Normalized(req))

\* C21: every record that filter_articles_by_criteria keeps has, for every
\* required category, a non-empty category that matches it; so a record
\* whose categories are only empty strings is dropped when something is
\* required.
C21_RealCategoryNeeded ==
    call.fn = "filter_articles_by_criteria" =>
        \A i \in 1..Len(call.ret) :
            \A r \in 1..Len(call.required_tags) :
                MatchedByRealCategory(call.required_tags[r], call.ret[i])

====
